---- MODULE Spec2Model ----
(***************************************************************************)
(* Model of repetition_detector.py: the repeating-pattern detector         *)
(* (find_repeating_patterns, find_all_occurrences), the atomic-unit        *)
(* decomposition (find_internal_repetition) and the batch loop of          *)
(* analyze_json_file.                                                      *)
(*                                                                         *)
(* A Python str is the sequence of its Unicode code points (97 is "a").    *)
(* Text indices are 0-based as in the source; Slice translates them to     *)
(* 1-based sequences.  A Python float is an IEEE-754 binary64 value, kept  *)
(* as its exponent and its 53 significant bits.  None is modelled by the   *)
(* empty sequence where the source only tests truthiness, and an optional  *)
(* value is a sequence of length 0 or 1.                                   *)
(***************************************************************************)
EXTENDS Integers, Sequences, FiniteSets, TLC

VARIABLES
    pc,               \* position of the running function
    text,             \* find_repeating_patterns: argument text
    min_length,       \* argument min_length
    min_occurrences,  \* argument min_occurrences
    start_pos,        \* loop variable of the offset loop (line 42)
    found_patterns,   \* set of claimed text indices (line 38)
    results,          \* list of (pattern, count, positions) (line 39)
    pattern,          \* find_internal_repetition: argument pattern
    unit_length,      \* loop variable of the unit loop (line 104)
    internal,         \* return value of find_internal_repetition
    data,             \* analyze_json_file: data['results']
    idx,              \* loop variable of the record loop (line 156)
    decompose,        \* argument decompose
    normalize,        \* argument normalize
    analysis_results  \* the dict built by analyze_json_file (line 138)

vars == <<pc, text, min_length, min_occurrences, start_pos, found_patterns,
          results, pattern, unit_length, internal, data, idx, decompose,
          normalize, analysis_results>>

detectorVars == <<text, min_length, min_occurrences, start_pos,
                  found_patterns, results>>
decompositionVars == <<pattern, unit_length, internal>>
analysisVars == <<data, idx, decompose, normalize, analysis_results>>

(***************************************************************************)
(* Bounds of the model.                                                    *)
(***************************************************************************)
MaxTextLen == 7
MaxMinLength == 2
MaxMinOccurrences == 3
MaxPatternLen == 7
MaxRecords == 2
MaxCopies == 5
MaxUnitLen == 2
\* the characters "a", "b", "c"
Alphabet == {97, 98, 99}

SeqsUpTo(S, n) == UNION {[1..k -> S] : k \in 0..n}

SetMin(S) == CHOOSE x \in S : \A y \in S : x <= y
SetMax(S) == CHOOSE x \in S : \A y \in S : x >= y

(***************************************************************************)
(* Python string primitives.                                               *)
(***************************************************************************)
\* t[i:j] for 0 <= i, 0 <= j
Slice(t, i, j) ==
    LET hi == IF j < Len(t) THEN j ELSE Len(t)
    IN  IF i >= hi THEN <<>> ELSE SubSeq(t, i + 1, hi)

\* t.find(p, start): lowest index >= start where p occurs, or -1
Find(t, p, start) ==
    LET hits == {i \in start..(Len(t) - Len(p)) : Slice(t, i, i + Len(p)) = p}
    IN  IF hits = {} THEN -1 ELSE SetMin(hits)

\* unit * n
RECURSIVE Repeat(_, _)
Repeat(unit, n) == IF n <= 0 THEN <<>> ELSE unit \o Repeat(unit, n - 1)

(***************************************************************************)
(* find_all_occurrences (lines 80-92).                                     *)
(***************************************************************************)
NextScanStartOverlapping(pos, p) == pos + 1

\* line 91: start = pos + len(pattern)
NextScanStart(pos, p) == pos + Len(p)

RECURSIVE ScanOccurrences(_, _, _, _)
ScanOccurrences(t, p, start, positions) ==
    LET pos == Find(t, p, start)
    IN  IF pos = -1
        THEN positions
        ELSE ScanOccurrences(t, p, NextScanStart(pos, p), Append(positions, pos))

find_all_occurrences(t, p) == ScanOccurrences(t, p, 0, <<>>)

(***************************************************************************)
(* find_repeating_patterns (lines 21-77).                                  *)
(***************************************************************************)
\* lines 48-50: best_pattern = None, best_count = 0, best_positions = []
NoBest == [pattern |-> <<>>, count |-> 0, positions |-> <<>>]

MeetsThresholdOffByOne(positions, mo) == Len(positions) >= mo - 1

\* line 57: len(positions) >= min_occurrences
MeetsThreshold(positions, mo) == Len(positions) >= mo

NextLengthSkipping(current_length) == current_length + 2

\* line 62: current_length += 1
NextLength(current_length) == current_length + 1

\* lines 53-65: the while loop extending the candidate from offset s
RECURSIVE ExpandPattern(_, _, _, _, _)
ExpandPattern(t, mo, s, current_length, best) ==
    IF s + current_length <= Len(t)
    THEN LET p == Slice(t, s, s + current_length)
             positions == find_all_occurrences(t, p)
         IN  IF MeetsThreshold(positions, mo)
             THEN ExpandPattern(t, mo, s, NextLength(current_length),
                                [pattern |-> p, count |-> Len(positions),
                                 positions |-> positions])
             ELSE best
    ELSE best

\* the text indices covered by the occurrence spans of a match
SpanOf(m) ==
    UNION {m.positions[k]..(m.positions[k] + Len(m.pattern) - 1) :
           k \in 1..Len(m.positions)}

MarkStartsOnly(found, best) ==
    found \cup {best.positions[k] : k \in 1..Len(best.positions)}

\* lines 71-73: mark every index of every occurrence span
MarkPositions(found, best) == found \cup SpanOf(best)

SortKeyLengthFirst(m) == <<0 - Len(m.pattern), 0 - m.count>>

\* line 76: key=lambda x: (-x[1], -len(x[0]))
SortKey(m) == <<0 - m.count, 0 - Len(m.pattern)>>

\* tuple comparison of two sort keys
KeyLess(k1, k2) == k1[1] < k2[1] \/ (k1[1] = k2[1] /\ k1[2] < k2[2])

\* insert m behind every element whose key is not greater (stable)
RECURSIVE InsertByKey(_, _)
InsertByKey(sorted, m) ==
    IF sorted = <<>> THEN <<m>>
    ELSE IF KeyLess(SortKey(m), SortKey(Head(sorted)))
         THEN <<m>> \o sorted
         ELSE <<Head(sorted)>> \o InsertByKey(Tail(sorted), m)

\* line 76: results.sort(key=...), a stable sort
RECURSIVE SortFrom(_, _)
SortFrom(list, sorted) ==
    IF list = <<>> THEN sorted
    ELSE SortFrom(Tail(list), InsertByKey(sorted, Head(list)))

SortResults(list) == SortFrom(list, <<>>)

\* line 34: len(text) < min_length * min_occurrences
TooShort(t, ml, mo) == Len(t) < ml * mo

\* line 42: start_pos in range(len(text) - min_length + 1)
InOffsetRange(t, ml, s) == s < Len(t) - ml + 1

\* lines 42-73 as a function: the offset loop from offset s
RECURSIVE OffsetLoop(_, _, _, _, _, _)
OffsetLoop(t, ml, mo, s, found, res) ==
    IF ~InOffsetRange(t, ml, s) THEN res
    ELSE IF s \in found THEN OffsetLoop(t, ml, mo, s + 1, found, res)
    ELSE LET best == ExpandPattern(t, mo, s, ml, NoBest)
         IN  IF best.pattern # <<>>
             THEN OffsetLoop(t, ml, mo, s + 1, MarkPositions(found, best),
                             Append(res, best))
             ELSE OffsetLoop(t, ml, mo, s + 1, found, res)

\* lines 21-77: the whole function, as called by analyze_json_file
find_repeating_patterns(t, ml, mo) ==
    IF TooShort(t, ml, mo) THEN <<>>
    ELSE SortResults(OffsetLoop(t, ml, mo, 0, {}, <<>>))

(***************************************************************************)
(* find_internal_repetition (lines 95-118).                                *)
(***************************************************************************)
\* A float x >= 0 is [exp, bits]: bits holds its 53 significant bits, most
\* significant first, and x = SUM bits[i] * 2^(exp + 1 - i); 0.0 has all
\* bits 0.  Every operation rounds to nearest, ties to even.
Precision == 53

FloatZero == [exp |-> 0, bits |-> [i \in 1..Precision |-> 0]]

\* the binary digits of k >= 0, most significant first (<<>> for 0)
RECURSIVE BinaryOf(_)
BinaryOf(k) == IF k = 0 THEN <<>> ELSE Append(BinaryOf(k \div 2), k % 2)

\* the integer written by a sequence of binary digits
RECURSIVE BitsValue(_)
BitsValue(bits) ==
    IF bits = <<>> THEN 0
    ELSE 2 * BitsValue(SubSeq(bits, 1, Len(bits) - 1)) + bits[Len(bits)]

\* the 53 bits plus one unit in the last place
IncrementBits(exp, bits) ==
    LET zeros == {i \in 1..Precision : bits[i] = 0}
    IN  IF zeros = {}
        THEN [exp |-> exp + 1,
              bits |-> [i \in 1..Precision |-> IF i = 1 THEN 1 ELSE 0]]
        ELSE LET j == SetMax(zeros)
             IN  [exp |-> exp,
                  bits |-> [i \in 1..Precision |->
                               IF i < j THEN bits[i]
                               ELSE IF i = j THEN 1 ELSE 0]]

\* round to nearest, ties to even: guard is the first dropped bit, sticky
\* tells whether anything non-zero follows it
RoundNearestEven(exp, bits, guard, sticky) ==
    IF guard = 1 /\ (sticky \/ bits[Precision] = 1)
    THEN IncrementBits(exp, bits)
    ELSE [exp |-> exp, bits |-> bits]

\* the greatest e >= 0 with d * 2^e <= n, for n >= d
RECURSIVE Log2Floor(_, _)
Log2Floor(n, d) == IF 2 * d <= n THEN 1 + Log2Floor(n, 2 * d) ELSE 0

\* the least k >= 0 with n * 2^k >= d
RECURSIVE ShiftUp(_, _)
ShiftUp(n, d) == IF n >= d THEN 0 ELSE 1 + ShiftUp(2 * n, d)

RECURSIVE Pow2(_)
Pow2(k) == IF k = 0 THEN 1 ELSE 2 * Pow2(k - 1)

\* k further quotient bits of r / d by long division (r < d), and the
\* remainder; the first half of the bits, then the rest from its remainder
RECURSIVE DivBits(_, _, _)
DivBits(r, d, k) ==
    IF k = 1
    THEN IF 2 * r >= d THEN [bits |-> <<1>>, rem |-> 2 * r - d]
                       ELSE [bits |-> <<0>>, rem |-> 2 * r]
    ELSE LET first == DivBits(r, d, k \div 2)
             rest == DivBits(first.rem, d, k - k \div 2)
         IN  [bits |-> first.bits \o rest.bits, rem |-> rest.rem]

\* the float n / d of two ints n >= 0, d > 0
FloatDiv(n, d) ==
    IF n = 0 THEN FloatZero
    ELSE LET e == IF n >= d THEN Log2Floor(n, d) ELSE 0 - ShiftUp(n, d)
             num == IF e >= 0 THEN n ELSE n * Pow2(0 - e)
             den == IF e >= 0 THEN d * Pow2(e) ELSE d
             q == DivBits(num - den, den, Precision)
         IN  RoundNearestEven(e, <<1>> \o SubSeq(q.bits, 1, Precision - 1),
                              q.bits[Precision], q.rem # 0)

\* c times the integer written by bits, plus carry: as many low bits as
\* bits has, and the carry out; the low half is computed first (the CASE
\* settles its carry), then the high half from that carry
RECURSIVE MulBits(_, _, _)
MulBits(bits, c, carry) ==
    IF Len(bits) = 1
    THEN LET v == c * bits[1] + carry
         IN  [bits |-> <<v % 2>>, carry |-> v \div 2]
    ELSE LET half == Len(bits) \div 2
             low == MulBits(SubSeq(bits, half + 1, Len(bits)), c, carry)
             high == MulBits(SubSeq(bits, 1, half), c, low.carry)
         IN  CASE low.carry >= 0 ->
                 [bits |-> high.bits \o low.bits, carry |-> high.carry]

\* int(x) for a float x >= 0
IntOf(x) ==
    IF x.exp < 0 THEN 0 ELSE BitsValue(SubSeq(x.bits, 1, x.exp + 1))

\* line 106: repetitions = len(pattern) / unit_length
Repetitions(p, ul) == FloatDiv(Len(p), ul)

UnitAcceptedIgnoringRemainder(p, ul) ==
    Repeat(Slice(p, 0, ul), IntOf(Repetitions(p, ul)))
        = Slice(p, 0, IntOf(Repetitions(p, ul)) * ul)

\* lines 105-112: the two tests that accept a unit length
UnitAccepted(p, ul) ==
    LET unit == Slice(p, 0, ul)
        full == IntOf(Repetitions(p, ul))
        remainder == Len(p) % ul
    IN  /\ Repeat(unit, full) = Slice(p, 0, full * ul)
        /\ \/ remainder = 0
           \/ Slice(p, Len(p) - remainder, Len(p)) = Slice(unit, 0, remainder)

DecompositionAlwaysExact(p, ul) ==
    [unit |-> Slice(p, 0, ul),
     repetitions |-> Repetitions(p, ul),
     is_exact |-> TRUE]

\* lines 113-117: the returned dict
Decomposition(p, ul) ==
    [unit |-> Slice(p, 0, ul),
     repetitions |-> Repetitions(p, ul),
     is_exact |-> (Len(p) % ul = 0)]

\* line 104: unit_length in range(1, len(pattern) // 2 + 1)
InUnitRange(p, ul) == ul < Len(p) \div 2 + 1

\* lines 104-118 as a function: None is <<>>, a dict d is <<d>>
RECURSIVE UnitLoop(_, _)
UnitLoop(p, ul) ==
    IF ~InUnitRange(p, ul) THEN <<>>
    ELSE IF UnitAccepted(p, ul) THEN <<Decomposition(p, ul)>>
    ELSE UnitLoop(p, ul + 1)

find_internal_repetition(p) == UnitLoop(p, 1)

(***************************************************************************)
(* analyze_json_file (lines 121-244).                                      *)
(***************************************************************************)
\* the characters matched by \s in a str pattern
Whitespace ==
    {9, 10, 11, 12, 13, 28, 29, 30, 31, 32, 133, 160, 5760}
        \cup (8192..8202) \cup {8232, 8233, 8239, 8287, 12288}

\* line 174: re.sub(r'\s+', '', response_text)
RECURSIVE StripWhitespace(_)
StripWhitespace(t) ==
    IF t = <<>> THEN <<>>
    ELSE IF Head(t) \in Whitespace THEN StripWhitespace(Tail(t))
    ELSE <<Head(t)>> \o StripWhitespace(Tail(t))

\* the one-to-one lower-case mappings of str.lower(): the characters
\* first, first + step, ..., last map to themselves plus delta
LowerRuns == <<
    <<65, 90, 1, 32>>, <<192, 214, 1, 32>>, <<216, 222, 1, 32>>,
    <<256, 302, 2, 1>>, <<306, 310, 2, 1>>, <<313, 327, 2, 1>>,
    <<330, 374, 2, 1>>, <<376, 376, 1, -121>>, <<377, 381, 2, 1>>,
    <<385, 385, 1, 210>>, <<386, 388, 2, 1>>, <<390, 390, 1, 206>>,
    <<391, 391, 1, 1>>, <<393, 394, 1, 205>>, <<395, 395, 1, 1>>,
    <<398, 398, 1, 79>>, <<399, 399, 1, 202>>, <<400, 400, 1, 203>>,
    <<401, 401, 1, 1>>, <<403, 403, 1, 205>>, <<404, 404, 1, 207>>,
    <<406, 406, 1, 211>>, <<407, 407, 1, 209>>, <<408, 408, 1, 1>>,
    <<412, 412, 1, 211>>, <<413, 413, 1, 213>>, <<415, 415, 1, 214>>,
    <<416, 420, 2, 1>>, <<422, 422, 1, 218>>, <<423, 423, 1, 1>>,
    <<425, 425, 1, 218>>, <<428, 428, 1, 1>>, <<430, 430, 1, 218>>,
    <<431, 431, 1, 1>>, <<433, 434, 1, 217>>, <<435, 437, 2, 1>>,
    <<439, 439, 1, 219>>, <<440, 440, 1, 1>>, <<444, 444, 1, 1>>,
    <<452, 452, 1, 2>>, <<453, 453, 1, 1>>, <<455, 455, 1, 2>>,
    <<456, 456, 1, 1>>, <<458, 458, 1, 2>>, <<459, 475, 2, 1>>,
    <<478, 494, 2, 1>>, <<497, 497, 1, 2>>, <<498, 500, 2, 1>>,
    <<502, 502, 1, -97>>, <<503, 503, 1, -56>>, <<504, 542, 2, 1>>,
    <<544, 544, 1, -130>>, <<546, 562, 2, 1>>, <<570, 570, 1, 10795>>,
    <<571, 571, 1, 1>>, <<573, 573, 1, -163>>, <<574, 574, 1, 10792>>,
    <<577, 577, 1, 1>>, <<579, 579, 1, -195>>, <<580, 580, 1, 69>>,
    <<581, 581, 1, 71>>, <<582, 590, 2, 1>>, <<880, 882, 2, 1>>,
    <<886, 886, 1, 1>>, <<895, 895, 1, 116>>, <<902, 902, 1, 38>>,
    <<904, 906, 1, 37>>, <<908, 908, 1, 64>>, <<910, 911, 1, 63>>,
    <<913, 929, 1, 32>>, <<931, 939, 1, 32>>, <<975, 975, 1, 8>>,
    <<984, 1006, 2, 1>>, <<1012, 1012, 1, -60>>, <<1015, 1015, 1, 1>>,
    <<1017, 1017, 1, -7>>, <<1018, 1018, 1, 1>>, <<1021, 1023, 1, -130>>,
    <<1024, 1039, 1, 80>>, <<1040, 1071, 1, 32>>, <<1120, 1152, 2, 1>>,
    <<1162, 1214, 2, 1>>, <<1216, 1216, 1, 15>>, <<1217, 1229, 2, 1>>,
    <<1232, 1326, 2, 1>>, <<1329, 1366, 1, 48>>, <<4256, 4293, 1, 7264>>,
    <<4295, 4295, 1, 7264>>, <<4301, 4301, 1, 7264>>,
    <<5024, 5103, 1, 38864>>, <<5104, 5109, 1, 8>>, <<7312, 7354, 1, -3008>>,
    <<7357, 7359, 1, -3008>>, <<7680, 7828, 2, 1>>, <<7838, 7838, 1, -7615>>,
    <<7840, 7934, 2, 1>>, <<7944, 7951, 1, -8>>, <<7960, 7965, 1, -8>>,
    <<7976, 7983, 1, -8>>, <<7992, 7999, 1, -8>>, <<8008, 8013, 1, -8>>,
    <<8025, 8031, 2, -8>>, <<8040, 8047, 1, -8>>, <<8072, 8079, 1, -8>>,
    <<8088, 8095, 1, -8>>, <<8104, 8111, 1, -8>>, <<8120, 8121, 1, -8>>,
    <<8122, 8123, 1, -74>>, <<8124, 8124, 1, -9>>, <<8136, 8139, 1, -86>>,
    <<8140, 8140, 1, -9>>, <<8152, 8153, 1, -8>>, <<8154, 8155, 1, -100>>,
    <<8168, 8169, 1, -8>>, <<8170, 8171, 1, -112>>, <<8172, 8172, 1, -7>>,
    <<8184, 8185, 1, -128>>, <<8186, 8187, 1, -126>>, <<8188, 8188, 1, -9>>,
    <<8486, 8486, 1, -7517>>, <<8490, 8490, 1, -8383>>,
    <<8491, 8491, 1, -8262>>, <<8498, 8498, 1, 28>>, <<8544, 8559, 1, 16>>,
    <<8579, 8579, 1, 1>>, <<9398, 9423, 1, 26>>, <<11264, 11311, 1, 48>>,
    <<11360, 11360, 1, 1>>, <<11362, 11362, 1, -10743>>,
    <<11363, 11363, 1, -3814>>, <<11364, 11364, 1, -10727>>,
    <<11367, 11371, 2, 1>>, <<11373, 11373, 1, -10780>>,
    <<11374, 11374, 1, -10749>>, <<11375, 11375, 1, -10783>>,
    <<11376, 11376, 1, -10782>>, <<11378, 11378, 1, 1>>,
    <<11381, 11381, 1, 1>>, <<11390, 11391, 1, -10815>>,
    <<11392, 11490, 2, 1>>, <<11499, 11501, 2, 1>>, <<11506, 11506, 1, 1>>,
    <<42560, 42604, 2, 1>>, <<42624, 42650, 2, 1>>, <<42786, 42798, 2, 1>>,
    <<42802, 42862, 2, 1>>, <<42873, 42875, 2, 1>>,
    <<42877, 42877, 1, -35332>>, <<42878, 42886, 2, 1>>,
    <<42891, 42891, 1, 1>>, <<42893, 42893, 1, -42280>>,
    <<42896, 42898, 2, 1>>, <<42902, 42920, 2, 1>>,
    <<42922, 42922, 1, -42308>>, <<42923, 42923, 1, -42319>>,
    <<42924, 42924, 1, -42315>>, <<42925, 42925, 1, -42305>>,
    <<42926, 42926, 1, -42308>>, <<42928, 42928, 1, -42258>>,
    <<42929, 42929, 1, -42282>>, <<42930, 42930, 1, -42261>>,
    <<42931, 42931, 1, 928>>, <<42932, 42946, 2, 1>>,
    <<42948, 42948, 1, -48>>, <<42949, 42949, 1, -42307>>,
    <<42950, 42950, 1, -35384>>, <<42951, 42953, 2, 1>>,
    <<42960, 42960, 1, 1>>, <<42966, 42968, 2, 1>>, <<42997, 42997, 1, 1>>,
    <<65313, 65338, 1, 32>>, <<66560, 66599, 1, 40>>,
    <<66736, 66771, 1, 40>>, <<66928, 66964, 2, 39>>,
    <<66929, 66937, 2, 39>>, <<66941, 66953, 2, 39>>,
    <<66957, 66961, 2, 39>>, <<66965, 66965, 1, 39>>,
    <<68736, 68786, 1, 64>>, <<71840, 71871, 1, 32>>,
    <<93760, 93791, 1, 32>>, <<125184, 125217, 1, 34>> >>

\* the case-ignorable characters, as ranges <<first, last>>
CaseIgnorable == <<
    <<39, 39>>, <<46, 46>>, <<58, 58>>, <<94, 94>>, <<96, 96>>, <<168, 168>>,
    <<173, 173>>, <<175, 175>>, <<180, 180>>, <<183, 184>>, <<688, 879>>,
    <<884, 885>>, <<890, 890>>, <<900, 901>>, <<903, 903>>, <<1155, 1161>>,
    <<1369, 1369>>, <<1375, 1375>>, <<1425, 1469>>, <<1471, 1471>>,
    <<1473, 1474>>, <<1476, 1477>>, <<1479, 1479>>, <<1524, 1524>>,
    <<1536, 1541>>, <<1552, 1562>>, <<1564, 1564>>, <<1600, 1600>>,
    <<1611, 1631>>, <<1648, 1648>>, <<1750, 1757>>, <<1759, 1768>>,
    <<1770, 1773>>, <<1807, 1807>>, <<1809, 1809>>, <<1840, 1866>>,
    <<1958, 1968>>, <<2027, 2037>>, <<2042, 2042>>, <<2045, 2045>>,
    <<2070, 2093>>, <<2137, 2139>>, <<2184, 2184>>, <<2192, 2193>>,
    <<2200, 2207>>, <<2249, 2306>>, <<2362, 2362>>, <<2364, 2364>>,
    <<2369, 2376>>, <<2381, 2381>>, <<2385, 2391>>, <<2402, 2403>>,
    <<2417, 2417>>, <<2433, 2433>>, <<2492, 2492>>, <<2497, 2500>>,
    <<2509, 2509>>, <<2530, 2531>>, <<2558, 2558>>, <<2561, 2562>>,
    <<2620, 2620>>, <<2625, 2626>>, <<2631, 2632>>, <<2635, 2637>>,
    <<2641, 2641>>, <<2672, 2673>>, <<2677, 2677>>, <<2689, 2690>>,
    <<2748, 2748>>, <<2753, 2757>>, <<2759, 2760>>, <<2765, 2765>>,
    <<2786, 2787>>, <<2810, 2815>>, <<2817, 2817>>, <<2876, 2876>>,
    <<2879, 2879>>, <<2881, 2884>>, <<2893, 2893>>, <<2901, 2902>>,
    <<2914, 2915>>, <<2946, 2946>>, <<3008, 3008>>, <<3021, 3021>>,
    <<3072, 3072>>, <<3076, 3076>>, <<3132, 3132>>, <<3134, 3136>>,
    <<3142, 3144>>, <<3146, 3149>>, <<3157, 3158>>, <<3170, 3171>>,
    <<3201, 3201>>, <<3260, 3260>>, <<3263, 3263>>, <<3270, 3270>>,
    <<3276, 3277>>, <<3298, 3299>>, <<3328, 3329>>, <<3387, 3388>>,
    <<3393, 3396>>, <<3405, 3405>>, <<3426, 3427>>, <<3457, 3457>>,
    <<3530, 3530>>, <<3538, 3540>>, <<3542, 3542>>, <<3633, 3633>>,
    <<3636, 3642>>, <<3654, 3662>>, <<3761, 3761>>, <<3764, 3772>>,
    <<3782, 3782>>, <<3784, 3789>>, <<3864, 3865>>, <<3893, 3893>>,
    <<3895, 3895>>, <<3897, 3897>>, <<3953, 3966>>, <<3968, 3972>>,
    <<3974, 3975>>, <<3981, 3991>>, <<3993, 4028>>, <<4038, 4038>>,
    <<4141, 4144>>, <<4146, 4151>>, <<4153, 4154>>, <<4157, 4158>>,
    <<4184, 4185>>, <<4190, 4192>>, <<4209, 4212>>, <<4226, 4226>>,
    <<4229, 4230>>, <<4237, 4237>>, <<4253, 4253>>, <<4348, 4348>>,
    <<4957, 4959>>, <<5906, 5908>>, <<5938, 5939>>, <<5970, 5971>>,
    <<6002, 6003>>, <<6068, 6069>>, <<6071, 6077>>, <<6086, 6086>>,
    <<6089, 6099>>, <<6103, 6103>>, <<6109, 6109>>, <<6155, 6159>>,
    <<6211, 6211>>, <<6277, 6278>>, <<6313, 6313>>, <<6432, 6434>>,
    <<6439, 6440>>, <<6450, 6450>>, <<6457, 6459>>, <<6679, 6680>>,
    <<6683, 6683>>, <<6742, 6742>>, <<6744, 6750>>, <<6752, 6752>>,
    <<6754, 6754>>, <<6757, 6764>>, <<6771, 6780>>, <<6783, 6783>>,
    <<6823, 6823>>, <<6832, 6862>>, <<6912, 6915>>, <<6964, 6964>>,
    <<6966, 6970>>, <<6972, 6972>>, <<6978, 6978>>, <<7019, 7027>>,
    <<7040, 7041>>, <<7074, 7077>>, <<7080, 7081>>, <<7083, 7085>>,
    <<7142, 7142>>, <<7144, 7145>>, <<7149, 7149>>, <<7151, 7153>>,
    <<7212, 7219>>, <<7222, 7223>>, <<7288, 7293>>, <<7376, 7378>>,
    <<7380, 7392>>, <<7394, 7400>>, <<7405, 7405>>, <<7412, 7412>>,
    <<7416, 7417>>, <<7468, 7530>>, <<7544, 7544>>, <<7579, 7679>>,
    <<8125, 8125>>, <<8127, 8129>>, <<8141, 8143>>, <<8157, 8159>>,
    <<8173, 8175>>, <<8189, 8190>>, <<8203, 8207>>, <<8216, 8217>>,
    <<8228, 8228>>, <<8231, 8231>>, <<8234, 8238>>, <<8288, 8292>>,
    <<8294, 8303>>, <<8305, 8305>>, <<8319, 8319>>, <<8336, 8348>>,
    <<8400, 8432>>, <<11388, 11389>>, <<11503, 11505>>, <<11631, 11631>>,
    <<11647, 11647>>, <<11744, 11775>>, <<11823, 11823>>, <<12293, 12293>>,
    <<12330, 12333>>, <<12337, 12341>>, <<12347, 12347>>, <<12441, 12446>>,
    <<12540, 12542>>, <<40981, 40981>>, <<42232, 42237>>, <<42508, 42508>>,
    <<42607, 42610>>, <<42612, 42621>>, <<42623, 42623>>, <<42652, 42655>>,
    <<42736, 42737>>, <<42752, 42785>>, <<42864, 42864>>, <<42888, 42890>>,
    <<42994, 42996>>, <<43000, 43001>>, <<43010, 43010>>, <<43014, 43014>>,
    <<43019, 43019>>, <<43045, 43046>>, <<43052, 43052>>, <<43204, 43205>>,
    <<43232, 43249>>, <<43263, 43263>>, <<43302, 43309>>, <<43335, 43345>>,
    <<43392, 43394>>, <<43443, 43443>>, <<43446, 43449>>, <<43452, 43453>>,
    <<43471, 43471>>, <<43493, 43494>>, <<43561, 43566>>, <<43569, 43570>>,
    <<43573, 43574>>, <<43587, 43587>>, <<43596, 43596>>, <<43632, 43632>>,
    <<43644, 43644>>, <<43696, 43696>>, <<43698, 43700>>, <<43703, 43704>>,
    <<43710, 43711>>, <<43713, 43713>>, <<43741, 43741>>, <<43756, 43757>>,
    <<43763, 43764>>, <<43766, 43766>>, <<43867, 43871>>, <<43881, 43883>>,
    <<44005, 44005>>, <<44008, 44008>>, <<44013, 44013>>, <<64286, 64286>>,
    <<64434, 64450>>, <<65024, 65039>>, <<65043, 65043>>, <<65056, 65071>>,
    <<65106, 65106>>, <<65109, 65109>>, <<65279, 65279>>, <<65287, 65287>>,
    <<65294, 65294>>, <<65306, 65306>>, <<65342, 65342>>, <<65344, 65344>>,
    <<65392, 65392>>, <<65438, 65439>>, <<65507, 65507>>, <<65529, 65531>>,
    <<66045, 66045>>, <<66272, 66272>>, <<66422, 66426>>, <<67456, 67461>>,
    <<67463, 67504>>, <<67506, 67514>>, <<68097, 68099>>, <<68101, 68102>>,
    <<68108, 68111>>, <<68152, 68154>>, <<68159, 68159>>, <<68325, 68326>>,
    <<68900, 68903>>, <<69291, 69292>>, <<69446, 69456>>, <<69506, 69509>>,
    <<69633, 69633>>, <<69688, 69702>>, <<69744, 69744>>, <<69747, 69748>>,
    <<69759, 69761>>, <<69811, 69814>>, <<69817, 69818>>, <<69821, 69821>>,
    <<69826, 69826>>, <<69837, 69837>>, <<69888, 69890>>, <<69927, 69931>>,
    <<69933, 69940>>, <<70003, 70003>>, <<70016, 70017>>, <<70070, 70078>>,
    <<70089, 70092>>, <<70095, 70095>>, <<70191, 70193>>, <<70196, 70196>>,
    <<70198, 70199>>, <<70206, 70206>>, <<70367, 70367>>, <<70371, 70378>>,
    <<70400, 70401>>, <<70459, 70460>>, <<70464, 70464>>, <<70502, 70508>>,
    <<70512, 70516>>, <<70712, 70719>>, <<70722, 70724>>, <<70726, 70726>>,
    <<70750, 70750>>, <<70835, 70840>>, <<70842, 70842>>, <<70847, 70848>>,
    <<70850, 70851>>, <<71090, 71093>>, <<71100, 71101>>, <<71103, 71104>>,
    <<71132, 71133>>, <<71219, 71226>>, <<71229, 71229>>, <<71231, 71232>>,
    <<71339, 71339>>, <<71341, 71341>>, <<71344, 71349>>, <<71351, 71351>>,
    <<71453, 71455>>, <<71458, 71461>>, <<71463, 71467>>, <<71727, 71735>>,
    <<71737, 71738>>, <<71995, 71996>>, <<71998, 71998>>, <<72003, 72003>>,
    <<72148, 72151>>, <<72154, 72155>>, <<72160, 72160>>, <<72193, 72202>>,
    <<72243, 72248>>, <<72251, 72254>>, <<72263, 72263>>, <<72273, 72278>>,
    <<72281, 72283>>, <<72330, 72342>>, <<72344, 72345>>, <<72752, 72758>>,
    <<72760, 72765>>, <<72767, 72767>>, <<72850, 72871>>, <<72874, 72880>>,
    <<72882, 72883>>, <<72885, 72886>>, <<73009, 73014>>, <<73018, 73018>>,
    <<73020, 73021>>, <<73023, 73029>>, <<73031, 73031>>, <<73104, 73105>>,
    <<73109, 73109>>, <<73111, 73111>>, <<73459, 73460>>, <<78896, 78904>>,
    <<92912, 92916>>, <<92976, 92982>>, <<92992, 92995>>, <<94031, 94031>>,
    <<94095, 94111>>, <<94176, 94177>>, <<94179, 94180>>, <<110576, 110579>>,
    <<110581, 110587>>, <<110589, 110590>>, <<113821, 113822>>,
    <<113824, 113827>>, <<118528, 118573>>, <<118576, 118598>>,
    <<119143, 119145>>, <<119155, 119170>>, <<119173, 119179>>,
    <<119210, 119213>>, <<119362, 119364>>, <<121344, 121398>>,
    <<121403, 121452>>, <<121461, 121461>>, <<121476, 121476>>,
    <<121499, 121503>>, <<121505, 121519>>, <<122880, 122886>>,
    <<122888, 122904>>, <<122907, 122913>>, <<122915, 122916>>,
    <<122918, 122922>>, <<123184, 123197>>, <<123566, 123566>>,
    <<123628, 123631>>, <<125136, 125142>>, <<125252, 125259>>,
    <<127995, 127999>>, <<917505, 917505>>, <<917536, 917631>>,
    <<917760, 917999>> >>

\* the cased characters that are not case-ignorable, as ranges <<first, last>>
CasedLetters == <<
    <<65, 90>>, <<97, 122>>, <<170, 170>>, <<181, 181>>, <<186, 186>>,
    <<192, 214>>, <<216, 246>>, <<248, 442>>, <<444, 447>>, <<452, 659>>,
    <<661, 687>>, <<880, 883>>, <<886, 887>>, <<891, 893>>, <<895, 895>>,
    <<902, 902>>, <<904, 906>>, <<908, 908>>, <<910, 929>>, <<931, 1013>>,
    <<1015, 1153>>, <<1162, 1327>>, <<1329, 1366>>, <<1376, 1416>>,
    <<4256, 4293>>, <<4295, 4295>>, <<4301, 4301>>, <<4304, 4346>>,
    <<4349, 4351>>, <<5024, 5109>>, <<5112, 5117>>, <<7296, 7304>>,
    <<7312, 7354>>, <<7357, 7359>>, <<7424, 7467>>, <<7531, 7543>>,
    <<7545, 7578>>, <<7680, 7957>>, <<7960, 7965>>, <<7968, 8005>>,
    <<8008, 8013>>, <<8016, 8023>>, <<8025, 8025>>, <<8027, 8027>>,
    <<8029, 8029>>, <<8031, 8061>>, <<8064, 8116>>, <<8118, 8124>>,
    <<8126, 8126>>, <<8130, 8132>>, <<8134, 8140>>, <<8144, 8147>>,
    <<8150, 8155>>, <<8160, 8172>>, <<8178, 8180>>, <<8182, 8188>>,
    <<8450, 8450>>, <<8455, 8455>>, <<8458, 8467>>, <<8469, 8469>>,
    <<8473, 8477>>, <<8484, 8484>>, <<8486, 8486>>, <<8488, 8488>>,
    <<8490, 8493>>, <<8495, 8500>>, <<8505, 8505>>, <<8508, 8511>>,
    <<8517, 8521>>, <<8526, 8526>>, <<8544, 8575>>, <<8579, 8580>>,
    <<9398, 9449>>, <<11264, 11387>>, <<11390, 11492>>, <<11499, 11502>>,
    <<11506, 11507>>, <<11520, 11557>>, <<11559, 11559>>, <<11565, 11565>>,
    <<42560, 42605>>, <<42624, 42651>>, <<42786, 42863>>, <<42865, 42887>>,
    <<42891, 42894>>, <<42896, 42954>>, <<42960, 42961>>, <<42963, 42963>>,
    <<42965, 42969>>, <<42997, 42998>>, <<43002, 43002>>, <<43824, 43866>>,
    <<43872, 43880>>, <<43888, 43967>>, <<64256, 64262>>, <<64275, 64279>>,
    <<65313, 65338>>, <<65345, 65370>>, <<66560, 66639>>, <<66736, 66771>>,
    <<66776, 66811>>, <<66928, 66938>>, <<66940, 66954>>, <<66956, 66962>>,
    <<66964, 66965>>, <<66967, 66977>>, <<66979, 66993>>, <<66995, 67001>>,
    <<67003, 67004>>, <<68736, 68786>>, <<68800, 68850>>, <<71840, 71903>>,
    <<93760, 93823>>, <<119808, 119892>>, <<119894, 119964>>,
    <<119966, 119967>>, <<119970, 119970>>, <<119973, 119974>>,
    <<119977, 119980>>, <<119982, 119993>>, <<119995, 119995>>,
    <<119997, 120003>>, <<120005, 120069>>, <<120071, 120074>>,
    <<120077, 120084>>, <<120086, 120092>>, <<120094, 120121>>,
    <<120123, 120126>>, <<120128, 120132>>, <<120134, 120134>>,
    <<120138, 120144>>, <<120146, 120485>>, <<120488, 120512>>,
    <<120514, 120538>>, <<120540, 120570>>, <<120572, 120596>>,
    <<120598, 120628>>, <<120630, 120654>>, <<120656, 120686>>,
    <<120688, 120712>>, <<120714, 120744>>, <<120746, 120770>>,
    <<120772, 120779>>, <<122624, 122633>>, <<122635, 122654>>,
    <<125184, 125251>>, <<127280, 127305>>, <<127312, 127337>>,
    <<127344, 127369>> >>

InRanges(c, ranges) ==
    \E k \in 1..Len(ranges) : ranges[k][1] <= c /\ c <= ranges[k][2]

InRun(c, run) ==
    run[1] <= c /\ c <= run[2] /\ (c - run[1]) % run[3] = 0

\* c.lower() for a one-character string; U+0130 becomes two characters
Lower(c) ==
    IF c = 304 THEN <<105, 775>>
    ELSE IF \E k \in 1..Len(LowerRuns) : InRun(c, LowerRuns[k])
         THEN LET k == CHOOSE k \in 1..Len(LowerRuns) : InRun(c, LowerRuns[k])
              IN  <<c + LowerRuns[k][4]>>
         ELSE <<c>>

\* str.lower() of a capital sigma at index i: the final form U+03C2 when a
\* cased letter precedes it and none follows it, case-ignorable characters
\* skipped on both sides
LowerSigma(t, i) ==
    LET before == {j \in 1..(i - 1) : ~InRanges(t[j], CaseIgnorable)}
        after == {j \in (i + 1)..Len(t) : ~InRanges(t[j], CaseIgnorable)}
        final == /\ before # {}
                 /\ InRanges(t[SetMax(before)], CasedLetters)
                 /\ \/ after = {}
                    \/ ~InRanges(t[SetMin(after)], CasedLetters)
    IN  IF final THEN <<962>> ELSE <<963>>

\* t.lower() from index i on
RECURSIVE LowerFrom(_, _)
LowerFrom(t, i) ==
    IF i > Len(t) THEN <<>>
    ELSE (IF t[i] = 931 THEN LowerSigma(t, i) ELSE Lower(t[i]))
             \o LowerFrom(t, i + 1)

\* line 174: re.sub(r'\s+', '', response_text).lower()
Normalize(t) == LowerFrom(StripWhitespace(t), 1)

\* count * repetitions for an int count >= 0: the exact product, rounded
Scale(count, x) ==
    IF count = 0 \/ x = FloatZero THEN FloatZero
    ELSE LET scaled == MulBits(x.bits, count, 0)
             product == BinaryOf(scaled.carry) \o scaled.bits
             extra == Len(product) - Precision
         IN  RoundNearestEven(x.exp + extra, SubSeq(product, 1, Precision),
                              IF extra >= 1 THEN product[Precision + 1] ELSE 0,
                              \E i \in (Precision + 2)..Len(product) :
                                  product[i] = 1)

\* lines 213-218 and 233-238: the internal_repetition annotation of a match
InternalInfo(m, dec) ==
    IF ~dec THEN <<>>
    ELSE LET rep == find_internal_repetition(m.pattern)
         IN  IF rep = <<>> THEN <<>>
             ELSE <<[atomic_unit |-> rep[1].unit,
                     unit_repetitions |-> rep[1].repetitions,
                     is_exact_repetition |-> rep[1].is_exact,
                     total_atomic_occurrences |->
                         Scale(m.count, rep[1].repetitions)]>>

\* lines 202-207 and 222-227: the description of a match
PatternInfo(m, dec) ==
    [text |-> m.pattern,
     length |-> Len(m.pattern),
     occurrences |-> m.count,
     positions |-> m.positions,
     internal_repetition |-> InternalInfo(m, dec)]

\* lines 138-154: the dict before the record loop
InitialAnalysis(records, ml, mo, dec, norm) ==
    [total_entries |-> Len(records),
     entries_with_repetition |-> 0,
     correct_answers |-> 0,
     incorrect_answers |-> 0,
     correct_with_repetition |-> 0,
     incorrect_with_repetition |-> 0,
     analysis_settings |-> [min_length |-> ml, min_occurrences |-> mo,
                            decompose |-> dec, normalize |-> norm],
     entries |-> <<>>]

\* lines 162-168: is_correct, None when an answer field is missing
IsCorrect(result) ==
    IF result.expected_int # <<>> /\ result.response_int # <<>>
    THEN <<result.expected_int[1] = result.response_int[1]>>
    ELSE <<>>

\* lines 161-242: one analyzed record
AnalyzeRecord(ar, i, result, ml, mo, dec, norm) ==
    LET is_correct == IsCorrect(result)
        response_text == IF norm THEN Normalize(result.response_text[1])
                         ELSE result.response_text[1]
        patterns == find_repeating_patterns(response_text, ml, mo)
        has_repetition == Len(patterns) > 0
        rep == IF has_repetition THEN 1 ELSE 0
        entry_data ==
            [entry_index |-> i,
             expected_int |-> result.expected_int,
             response_int |-> result.response_int,
             is_correct |-> is_correct,
             text_length |-> Len(response_text),
             has_repetition |-> has_repetition,
             patterns_found |-> Len(patterns),
             most_frequent_pattern |->
                 IF patterns # <<>> THEN <<PatternInfo(patterns[1], dec)>>
                 ELSE <<>>,
             all_patterns |->
                 [k \in 1..Len(patterns) |-> PatternInfo(patterns[k], dec)]]
    IN  [ar EXCEPT
            !.correct_answers =
                @ + (IF is_correct = <<TRUE>> THEN 1 ELSE 0),
            !.incorrect_answers =
                @ + (IF is_correct = <<FALSE>> THEN 1 ELSE 0),
            !.entries_with_repetition = @ + rep,
            !.correct_with_repetition =
                @ + (IF is_correct = <<TRUE>> THEN rep ELSE 0),
            !.incorrect_with_repetition =
                @ + (IF is_correct = <<FALSE>> THEN rep ELSE 0),
            !.entries = Append(@, entry_data)]

ProcessRecordCountingFirst(ar, i, result, ml, mo, dec, norm) ==
    IF result.response_text = <<>>
    THEN [ar EXCEPT
            !.correct_answers =
                @ + (IF IsCorrect(result) = <<TRUE>> THEN 1 ELSE 0),
            !.incorrect_answers =
                @ + (IF IsCorrect(result) = <<FALSE>> THEN 1 ELSE 0)]
    ELSE AnalyzeRecord(ar, i, result, ml, mo, dec, norm)

\* lines 156-242: one iteration of the record loop
ProcessRecord(ar, i, result, ml, mo, dec, norm) ==
    IF result.response_text = <<>>
    THEN ar
    ELSE AnalyzeRecord(ar, i, result, ml, mo, dec, norm)

(***************************************************************************)
(* The detector as a state machine: one step per iteration of the offset   *)
(* loop.                                                                   *)
(***************************************************************************)
DetectorInputs ==
    /\ text \in SeqsUpTo(Alphabet, MaxTextLen)
    /\ min_length \in 1..MaxMinLength
    /\ min_occurrences \in 2..MaxMinOccurrences

DetectorIdle ==
    /\ text = <<>>
    /\ min_length = 1
    /\ min_occurrences = 2
    /\ start_pos = 0
    /\ found_patterns = {}
    /\ results = <<>>

DecompositionIdle ==
    /\ pattern = <<>>
    /\ unit_length = 0
    /\ internal = <<>>

AnalysisIdle ==
    /\ data = <<>>
    /\ idx = 0
    /\ decompose = FALSE
    /\ normalize = FALSE
    /\ analysis_results = <<>>

Init ==
    /\ pc = "find_repeating_patterns"
    /\ DetectorInputs
    /\ start_pos = 0
    /\ found_patterns = {}
    /\ results = <<>>
    /\ DecompositionIdle
    /\ AnalysisIdle

\* lines 34-35: return [] for a text that is too short
ReturnEmpty ==
    /\ pc = "find_repeating_patterns"
    /\ TooShort(text, min_length, min_occurrences)
    /\ pc' = "returned"
    /\ results' = <<>>
    /\ UNCHANGED <<text, min_length, min_occurrences, start_pos, found_patterns>>
    /\ UNCHANGED <<decompositionVars, analysisVars>>

\* lines 38-42: initialise and enter the offset loop
EnterLoop ==
    /\ pc = "find_repeating_patterns"
    /\ ~TooShort(text, min_length, min_occurrences)
    /\ pc' = "offset_loop"
    /\ found_patterns' = {}
    /\ results' = <<>>
    /\ start_pos' = 0
    /\ UNCHANGED <<text, min_length, min_occurrences>>
    /\ UNCHANGED <<decompositionVars, analysisVars>>

\* lines 44-45: the offset is claimed, continue
SkipClaimed ==
    /\ pc = "offset_loop"
    /\ InOffsetRange(text, min_length, start_pos)
    /\ start_pos \in found_patterns
    /\ start_pos' = start_pos + 1
    /\ UNCHANGED <<pc, text, min_length, min_occurrences, found_patterns, results>>
    /\ UNCHANGED <<decompositionVars, analysisVars>>

\* lines 47-73: search from an unclaimed offset, record and mark the best
SearchOffset ==
    /\ pc = "offset_loop"
    /\ InOffsetRange(text, min_length, start_pos)
    /\ start_pos \notin found_patterns
    /\ LET best == ExpandPattern(text, min_occurrences, start_pos,
                                 min_length, NoBest)
       IN  IF best.pattern # <<>>
           THEN /\ results' = Append(results, best)
                /\ found_patterns' = MarkPositions(found_patterns, best)
           ELSE UNCHANGED <<results, found_patterns>>
    /\ start_pos' = start_pos + 1
    /\ UNCHANGED <<pc, text, min_length, min_occurrences>>
    /\ UNCHANGED <<decompositionVars, analysisVars>>

\* lines 75-77: the loop is exhausted; sort and return
SortAndReturn ==
    /\ pc = "offset_loop"
    /\ ~InOffsetRange(text, min_length, start_pos)
    /\ pc' = "returned"
    /\ results' = SortResults(results)
    /\ UNCHANGED <<text, min_length, min_occurrences, start_pos, found_patterns>>
    /\ UNCHANGED <<decompositionVars, analysisVars>>

Next ==
    \/ ReturnEmpty
    \/ EnterLoop
    \/ SkipClaimed
    \/ SearchOffset
    \/ SortAndReturn

Spec == Init /\ [][Next]_vars

(***************************************************************************)
(* Scenario D: two repeating regions separated by non-repeating text.      *)
(***************************************************************************)
\* units over "a", "b" and over "c"; separators "x", "y", "xy"
LeftUnits == SeqsUpTo({97, 98}, MaxUnitLen) \ {<<>>}
RightUnits == SeqsUpTo({99}, MaxUnitLen) \ {<<>>}
Separators == {<<120>>, <<121>>, <<120, 121>>}

InitScenarioD ==
    /\ pc = "find_repeating_patterns"
    /\ \E u \in LeftUnits, v \in RightUnits, sep \in Separators,
          k \in 2..MaxCopies, m \in 2..MaxCopies :
           text = Repeat(u, k) \o sep \o Repeat(v, m)
    /\ min_length \in 1..MaxMinLength
    /\ min_occurrences \in 2..MaxMinOccurrences
    /\ start_pos = 0
    /\ found_patterns = {}
    /\ results = <<>>
    /\ DecompositionIdle
    /\ AnalysisIdle

SpecScenarioD == InitScenarioD /\ [][Next]_vars

(***************************************************************************)
(* find_internal_repetition as a state machine: one step per iteration of  *)
(* the unit loop.                                                          *)
(***************************************************************************)
InitDecomposition ==
    /\ pc = "unit_loop"
    /\ pattern \in SeqsUpTo(Alphabet, MaxPatternLen)
    /\ unit_length = 1
    /\ internal = <<>>
    /\ DetectorIdle
    /\ AnalysisIdle

\* lines 109-117: the unit is accepted, return the dict
AcceptUnit ==
    /\ pc = "unit_loop"
    /\ InUnitRange(pattern, unit_length)
    /\ UnitAccepted(pattern, unit_length)
    /\ internal' = <<Decomposition(pattern, unit_length)>>
    /\ pc' = "unit_returned"
    /\ UNCHANGED <<pattern, unit_length>>
    /\ UNCHANGED <<detectorVars, analysisVars>>

\* lines 104-112: the unit is rejected, try the next length
RejectUnit ==
    /\ pc = "unit_loop"
    /\ InUnitRange(pattern, unit_length)
    /\ ~UnitAccepted(pattern, unit_length)
    /\ unit_length' = unit_length + 1
    /\ UNCHANGED <<pc, pattern, internal>>
    /\ UNCHANGED <<detectorVars, analysisVars>>

\* line 118: return None
ReturnNone ==
    /\ pc = "unit_loop"
    /\ ~InUnitRange(pattern, unit_length)
    /\ internal' = <<>>
    /\ pc' = "unit_returned"
    /\ UNCHANGED <<pattern, unit_length>>
    /\ UNCHANGED <<detectorVars, analysisVars>>

NextDecomposition ==
    \/ AcceptUnit
    \/ RejectUnit
    \/ ReturnNone

SpecDecomposition == InitDecomposition /\ [][NextDecomposition]_vars

(***************************************************************************)
(* analyze_json_file as a state machine: one step per record.              *)
(***************************************************************************)
Optional(S) == {<<>>} \cup {<<x>> : x \in S}

\* the texts "ab", "aA", "a\t a", "aaaa"
ResponseTexts ==
    {<<97, 98>>, <<97, 65>>, <<97, 9, 32, 97>>, <<97, 97, 97, 97>>}

Records ==
    [response_text : Optional(ResponseTexts),
     expected_int : Optional({1}),
     response_int : Optional({1, 2})]

InitAnalysis ==
    /\ pc = "record_loop"
    /\ data \in SeqsUpTo(Records, MaxRecords)
    /\ decompose \in BOOLEAN
    /\ normalize \in BOOLEAN
    /\ min_length \in 1..MaxMinLength
    /\ min_occurrences = 2
    /\ idx = 0
    /\ analysis_results =
           InitialAnalysis(data, min_length, min_occurrences, decompose,
                           normalize)
    /\ text = <<>>
    /\ start_pos = 0
    /\ found_patterns = {}
    /\ results = <<>>
    /\ DecompositionIdle

\* lines 156-242: process data['results'][idx]
NextRecord ==
    /\ pc = "record_loop"
    /\ idx < Len(data)
    /\ analysis_results' =
           ProcessRecord(analysis_results, idx, data[idx + 1], min_length,
                         min_occurrences, decompose, normalize)
    /\ idx' = idx + 1
    /\ UNCHANGED <<pc, data, decompose, normalize>>
    /\ UNCHANGED <<detectorVars, decompositionVars>>

\* line 244: return analysis_results
ReturnAnalysis ==
    /\ pc = "record_loop"
    /\ idx = Len(data)
    /\ pc' = "analysis_returned"
    /\ UNCHANGED <<data, idx, decompose, normalize, analysis_results>>
    /\ UNCHANGED <<detectorVars, decompositionVars>>

NextAnalysis ==
    \/ NextRecord
    \/ ReturnAnalysis

SpecAnalysis == InitAnalysis /\ [][NextAnalysis]_vars

(***************************************************************************)
(* Properties of find_repeating_patterns.                                  *)
(***************************************************************************)
Matches == {results[k] : k \in 1..Len(results)}

\* the offsets at which p occurs in t, overlapping occurrences included
OccurrenceOffsets(t, p) ==
    {o \in 0..(Len(t) - Len(p)) : Slice(t, o, o + Len(p)) = p}

\* C1: no two distinct matches of the result list share a text position:
\* the index sets covered by their occurrence spans are disjoint.
NoSharedPosition ==
    \A i, j \in 1..Len(results) :
        i # j => SpanOf(results[i]) \cap SpanOf(results[j]) = {}

\* the lengths L from offset s whose non-overlapping count meets the threshold
QualifyingLengths(t, ml, mo, s) ==
    {L \in ml..(Len(t) - s) :
        Len(find_all_occurrences(t, Slice(t, s, s + L))) >= mo}

\* C2: a searched (unclaimed) offset s appends at most one match, and it is
\* text[s:s+L] for the greatest L in min_length..len(text)-s whose
\* non-overlapping occurrence count is >= min_occurrences; when no length
\* qualifies nothing is appended.
LongestAtOffset ==
    [][(/\ pc = "offset_loop"
        /\ InOffsetRange(text, min_length, start_pos)
        /\ start_pos \notin found_patterns)
       => LET Ls == QualifyingLengths(text, min_length, min_occurrences,
                                      start_pos)
          IN  IF Ls = {}
              THEN results' = results
              ELSE /\ Len(results') = Len(results) + 1
                   /\ SubSeq(results', 1, Len(results)) = results
                   /\ results'[Len(results')].pattern =
                          Slice(text, start_pos, start_pos + SetMax(Ls))]_vars

\* offset 0 was searched, its match was extended beyond min_length and the
\* extension stopped before the end of the text
LongestAtOffsetWitness ==
    /\ pc = "offset_loop"
    /\ start_pos = 1
    /\ Len(results) = 1
    /\ Len(results[1].pattern) > min_length
    /\ Len(results[1].pattern) < Len(text)

\* C3: in every match the positions are strictly increasing with
\* positions[i] + len(pattern) <= positions[i+1], every position starts a
\* real occurrence of the pattern, and count is the number of positions.
SpansWellFormed ==
    \A m \in Matches :
        /\ m.count = Len(m.positions)
        /\ \A k \in 1..Len(m.positions) :
               /\ m.positions[k] >= 0
               /\ Slice(text, m.positions[k], m.positions[k] + Len(m.pattern))
                      = m.pattern
        /\ \A k \in 1..(Len(m.positions) - 1) :
               m.positions[k] + Len(m.pattern) <= m.positions[k + 1]

\* a returned match whose pattern also occurs at an offset overlapping one of
\* its reported spans
SpansWellFormedWitness ==
    /\ pc = "returned"
    /\ \E m \in Matches :
           /\ Len(m.pattern) >= 2
           /\ \E o \in OccurrenceOffsets(text, m.pattern) :
                  \A k \in 1..Len(m.positions) : m.positions[k] # o

\* C4: every match has count >= min_occurrences and
\* len(pattern) >= min_length.
MeetsThresholds ==
    \A m \in Matches :
        /\ m.count >= min_occurrences
        /\ Len(m.pattern) >= min_length

\* a returned match that meets the occurrence threshold exactly
MeetsThresholdsWitness ==
    /\ pc = "returned"
    /\ \E m \in Matches : m.count = min_occurrences /\ min_occurrences = 3

\* C5: the returned list is sorted by count descending and, among equal
\* counts, by pattern length descending; its first element has a count >=
\* the count of every other match.
SortedByCountThenLength ==
    pc = "returned" =>
        /\ \A k \in 1..(Len(results) - 1) :
               \/ results[k].count > results[k + 1].count
               \/ /\ results[k].count = results[k + 1].count
                  /\ Len(results[k].pattern) >= Len(results[k + 1].pattern)
        /\ \A m \in Matches : results[1].count >= m.count

\* a returned list whose first element is not the match found at the lowest
\* offset: the sort moved a shorter, more frequent pattern to the front
SortedByCountThenLengthWitness ==
    /\ pc = "returned"
    /\ Len(results) >= 2
    /\ results[1].count > results[2].count
    /\ Len(results[1].pattern) < Len(results[2].pattern)
    /\ Slice(text, 0, Len(results[2].pattern)) = results[2].pattern

\* C10: once a match with pattern P is appended and marked, every offset at
\* which P occurs in the text (overlapping occurrences included) is claimed;
\* so no offset that is searched begins with P, and no two matches of the
\* list have the same pattern string.
OccurrencesClaimed ==
    /\ \A m \in Matches : OccurrenceOffsets(text, m.pattern) \subseteq found_patterns
    /\ (pc = "offset_loop" /\ start_pos \notin found_patterns) =>
           \A m \in Matches :
               Slice(text, start_pos, start_pos + Len(m.pattern)) # m.pattern
    /\ \A i, j \in 1..Len(results) :
           i # j => results[i].pattern # results[j].pattern

\* offset s = start_pos - 1 was searched and the match discovered from it was
\* appended, although s is not one of its reported positions: the pattern
\* occurs earlier, overlapping s, at offsets claimed by earlier matches
OccurrencesClaimedWitness ==
    /\ pc = "offset_loop"
    /\ start_pos >= 1
    /\ results # <<>>
    /\ LET s == start_pos - 1
           m == results[Len(results)]
           earlier == UNION {SpanOf(results[k]) : k \in 1..(Len(results) - 1)}
       IN  /\ s \in OccurrenceOffsets(text, m.pattern)
           /\ s \notin earlier
           /\ \A k \in 1..Len(m.positions) : m.positions[k] # s
           /\ \A o \in OccurrenceOffsets(text, m.pattern) : o < s => o \in earlier

\* the index range lo..hi-1 of the text contains every occurrence span of m
Within(m, lo, hi) == SpanOf(m) \subseteq lo..(hi - 1)

\* C8: for a text R1 + sep + R2, R1 being k >= min_occurrences copies of u
\* and R2 being m >= min_occurrences copies of v, both units of length >=
\* min_length, exactly two matches are returned, one inside R1 and one
\* inside R2.
TwoRegionsTwoMatches ==
    pc = "returned" =>
        \A u \in LeftUnits, v \in RightUnits, sep \in Separators,
           k \in min_occurrences..MaxCopies, m \in min_occurrences..MaxCopies :
            (/\ text = Repeat(u, k) \o sep \o Repeat(v, m)
             /\ Len(u) >= min_length
             /\ Len(v) >= min_length)
            => /\ Len(results) = 2
               /\ \E i, j \in 1..Len(results) :
                      /\ i # j
                      /\ Within(results[i], 0, k * Len(u))
                      /\ Within(results[j], k * Len(u) + Len(sep), Len(text))

(***************************************************************************)
(* Properties of find_internal_repetition.                                 *)
(***************************************************************************)
\* the repetition criterion: pattern[i] = pattern[i mod ul] for every i
Periodic(p, ul) == \A i \in 0..(Len(p) - 1) : p[i + 1] = p[(i % ul) + 1]

PeriodsInRange(p) == {ul \in 1..(Len(p) \div 2) : Periodic(p, ul)}

\* C6: the returned unit is the prefix of the smallest unit length in
\* 1..floor(len/2) that satisfies the repetition criterion; None is returned
\* exactly when no unit length in range satisfies it, in particular for
\* every pattern of length 0 or 1.
SmallestUnit ==
    pc = "unit_returned" =>
        /\ IF PeriodsInRange(pattern) = {}
           THEN internal = <<>>
           ELSE /\ internal # <<>>
                /\ internal[1].unit =
                       Slice(pattern, 0, SetMin(PeriodsInRange(pattern)))
        /\ Len(pattern) <= 1 => internal = <<>>

\* a unit of length >= 2 ending in a partial copy was returned after the
\* shorter unit lengths were rejected
SmallestUnitWitness ==
    /\ pc = "unit_returned"
    /\ internal # <<>>
    /\ Len(internal[1].unit) >= 2
    /\ Len(pattern) % Len(internal[1].unit) # 0

\* the float of an int 0 <= k < 2^31: its binary digits, padded
FloatOfInt(k) ==
    IF k = 0 THEN FloatZero
    ELSE LET digits == BinaryOf(k)
         IN  [exp |-> Len(digits) - 1,
              bits |-> [i \in 1..Precision |->
                           IF i <= Len(digits) THEN digits[i] ELSE 0]]

\* C7: is_exact holds iff len(pattern) is a multiple of len(unit), and then
\* repetitions is the integer len(pattern)/len(unit) and unit repeated
\* repetitions times is the pattern.
ExactRoundTrip ==
    (pc = "unit_returned" /\ internal # <<>>) =>
        LET r == internal[1]
        IN  /\ r.is_exact <=> (Len(pattern) % Len(r.unit) = 0)
            /\ r.is_exact =>
                   /\ r.repetitions =
                          FloatOfInt(Len(pattern) \div Len(r.unit))
                   /\ Repeat(r.unit, IntOf(r.repetitions)) = pattern

\* an exact decomposition into three copies of a two-character unit
ExactRoundTripWitness ==
    /\ pc = "unit_returned"
    /\ internal # <<>>
    /\ internal[1].is_exact
    /\ Len(internal[1].unit) = 2
    /\ internal[1].repetitions = FloatOfInt(3)

(***************************************************************************)
(* Properties of analyze_json_file.                                        *)
(***************************************************************************)
\* the indices of the records among the first n that carry response_text
RECURSIVE AnalyzedIndices(_, _)
AnalyzedIndices(records, n) ==
    IF n = 0 THEN <<>>
    ELSE IF records[n].response_text = <<>>
         THEN AnalyzedIndices(records, n - 1)
         ELSE Append(AnalyzedIndices(records, n - 1), n - 1)

\* C9: a record without response_text appends no entry and leaves every
\* counter unchanged, even when it carries expected_int and response_int;
\* the loop goes on and every record with response_text gets its own entry,
\* in input order.
MissingTextSkipped ==
    /\ [][(/\ pc = "record_loop"
           /\ idx < Len(data)
           /\ data[idx + 1].response_text = <<>>)
          => /\ analysis_results' = analysis_results
             /\ idx' = idx + 1
             /\ pc' = "record_loop"]_vars
    /\ [](LET entries == analysis_results.entries
          IN  [k \in 1..Len(entries) |-> entries[k].entry_index]
                  = AnalyzedIndices(data, idx))

\* the batch was completed: its first record lacks response_text but
\* carries both answers, and the record behind it was analyzed
MissingTextSkippedWitness ==
    /\ pc = "analysis_returned"
    /\ Len(data) = 2
    /\ data[1].response_text = <<>>
    /\ data[1].expected_int # <<>>
    /\ data[1].response_int # <<>>
    /\ Len(analysis_results.entries) = 1
    /\ analysis_results.entries[1].entry_index = 1
    /\ analysis_results.entries[1].has_repetition

====
